---- MODULE Spec2Model ----
(***************************************************************************)
(* A model of the RenderDoc MCP bridge.                                    *)
(*                                                                         *)
(*   SpecFilter    Serializers.serialize_actions, the action tree query    *)
(*                 engine (renderdoc_facade.py), applied to every bounded  *)
(*                 forest under every bounded combination of criteria.     *)
(*   SpecRouter    RequestHandler.handle (request_handler.py) and the      *)
(*                 facade operations it calls.                             *)
(*   SpecServer    MCPBridgeServer._handle_client (socket_server.py): one  *)
(*                 connection, its frames and its worker.                  *)
(*   SpecClient    RenderDocBridge.call (mcp_server/bridge/client.py).     *)
(*   SpecProvider  the facade's accesses to the capture data provider.     *)
(*   SpecListener  start(), the accept loop of _run, and stop().           *)
(*                                                                         *)
(* Each specification leaves the variables of the other components at      *)
(* their idle values.                                                      *)
(***************************************************************************)
EXTENDS Integers, Sequences, FiniteSets, TLC

VARIABLES
    \* ---- action tree query engine ----
    forest,     \* the provider's action forest, nodes in execution order
    crit,       \* the filter criteria of the query
    fpc,        \* "input" before the query ran, "done" after
    result,     \* the list serialize_actions returned
    \* ---- request router ----
    loaded,     \* ctx.IsCaptureLoaded()
    handled,    \* the number of requests handled so far
    lastReq,    \* the request handle() was last called with
    lastEnv,    \* what the provider did during that call
    lastResp,   \* the response handle() returned for it
    invoked,    \* what the last handle call invoked: the handler, the facade
    \* ---- connection worker of the socket server ----
    running,    \* MCPBridgeServer._running
    wire,       \* bytes the peer wrote that the worker has not received yet
    peerClosed, \* the peer closed its end of the connection
    spc,        \* where MCPBridgeServer._handle_client stands
    rbuf,       \* `data` of the _recv_exact call in progress
    msg_length, \* `msg_length` of _handle_client
    msg_bytes,  \* `msg_bytes` of _handle_client
    request,    \* the local `request` of _handle_client, Unbound at first
    response,   \* the local `response` of _handle_client
    out,        \* bytes the worker wrote to the connection
    sent,       \* history: the payloads of the frames the peer wrote
    delivered,  \* history: the payloads _handle_client read as msg_bytes
    responses,  \* history: the responses written, each with its frame number
    stopSeen,   \* history: where the worker stood when stop() was called
    recvs,      \* history: the recv calls of the worker that returned data
    \* ---- bridge client ----
    csock,      \* RenderDocBridge._socket: "none", "unconnected" or "connected"
    cpc,        \* where RenderDocBridge.call stands
    conn,       \* the connection of _socket: "open" or "server_closed"
    cin,        \* response frames on the connection the client has not read
    pending,    \* ids of the requests the server side has not answered
    calls,      \* the number of call() invocations so far
    reqId,      \* the id of the request of the current call
    sends,      \* how often the current call wrote its request
    outcome,    \* how the last call ended
    gotId,      \* the id of the response the last call read
    \* ---- capture data provider ----
    pmethod,    \* per connection worker: the method of the request it handles
    ppc,        \* per connection worker: where the facade call stands
    direct,     \* the workers inside a ctx call made on their own thread
    replayQ,    \* the workers blocked in BlockInvoke, in submission order
    replayBusy, \* the worker whose callback the replay thread runs, or 0
    pLoaded,    \* whether the provider holds a loaded capture
    started,    \* the number of requests dispatched to the facade so far
    \* ---- listening socket and accept loop ----
    lrunning,   \* MCPBridgeServer._running
    lsock,      \* MCPBridgeServer._socket: "none", "open", "listening", "closed"
    apc,        \* where the thread of _run stands
    stpc,       \* where the call of stop() stands
    backlog,    \* connections waiting to be accepted
    connects,   \* the number of connections clients have opened so far
    accepted,   \* the number of connections accept() has returned
    acceptedAtStop, \* `accepted` when stop() returned
    \* ---- one MCPBridgeServer started and stopped again and again ----
    mRunning,   \* MCPBridgeServer._running
    mSocket,    \* MCPBridgeServer._socket: 0 for None, else the socket of loop t
    socks,      \* per loop, the socket it created: unused, open, listening, closed
    tpc,        \* per start(), where the thread of _run it started stands
    upc,        \* where the call of stop() stands
    nstops,     \* the number of stop() calls so far
    foreign,    \* history: <<t, s>>, loop t operated on the socket of loop s
    stopCalled, \* history: the loops that were alive when stop() was called
    \* ---- one RenderDocBridge shared by concurrent callers ----
    bsock,      \* RenderDocBridge._socket: "none" or "connected"
    bpc,        \* per caller, where its call() stands
    bout,       \* what the callers wrote to the socket: <<"H", c>> the length
                \* prefix, <<"B", c>> the body of the request of caller c
    bserved,    \* how much of bout the server side has read
    bdead,      \* the server side lost the frame boundaries and answers no more
    bin,        \* what the server wrote and no caller has read yet: <<"H", i>>,
                \* <<"B", i>> of the response with id i (0: an error, id null)
    bhdr,       \* per caller, the piece its _recv_exact(4) returned
    bgot        \* per caller, the id of the response its call decoded

filterVars == <<forest, crit, fpc, result>>
routerVars == <<loaded, handled, lastReq, lastEnv, lastResp, invoked>>
serverVars == <<running, wire, peerClosed, spc, rbuf, msg_length, msg_bytes,
                request, response, out, sent, delivered, responses, stopSeen,
                recvs>>
clientVars == <<csock, cpc, conn, cin, pending, calls, reqId, sends, outcome, gotId>>
providerVars == <<pmethod, ppc, direct, replayQ, replayBusy, pLoaded, started>>
listenerVars == <<lrunning, lsock, apc, stpc, backlog, connects, accepted,
                  acceptedAtStop>>
lifecycleVars == <<mRunning, mSocket, socks, tpc, upc, nstops, foreign, stopCalled>>
sharedVars == <<bsock, bpc, bout, bserved, bdead, bin, bhdr, bgot>>
vars == <<filterVars, routerVars, serverVars, clientVars, providerVars, listenerVars,
          lifecycleVars, sharedVars>>

(***************************************************************************)
(* Bounds.                                                                 *)
(***************************************************************************)
\* The largest number of actions in a forest.
MaxNodes == 3
\* The largest number of requests the router handles in one run.
MaxRequests == 2
\* The largest number of frames the peer writes to one connection.
MaxFrames == 2
\* The largest number of call() invocations on the bridge.
MaxCalls == 3
\* The number of connection workers with requests in flight.
NumWorkers == 2
\* The largest number of requests the workers dispatch to the facade.
MaxStarted == 3
\* The largest number of connections clients open to the listening socket.
MaxConnects == 3
\* The largest number of start() calls on one server.
MaxStarts == 2
\* The largest number of stop() calls on one server.
MaxStops == 2
\* The number of threads calling the one bridge at the same time.
NumCallers == 2

(***************************************************************************)
(* Optional values: Python's None is the empty tuple, a present value x    *)
(* is <<x>>.                                                               *)
(***************************************************************************)
None == <<>>
Some(x) == <<x>>
IsNone(o) == o = <<>>
Val(o) == o[1]

(***************************************************************************)
(* Strings are sequences of characters, so that Python's `sub in name`     *)
(* is computed as a substring search.                                      *)
(***************************************************************************)
Contains(sub, s) ==
    \E i \in 0..(Len(s) - Len(sub)) : SubSeq(s, i + 1, i + Len(sub)) = sub

(***************************************************************************)
(* Action flags.  rd.ActionFlags is a bit mask; a mask is modelled as the  *)
(* set of its flag names, and FlagMap is the ordered table of              *)
(* serialize_flags.                                                        *)
(***************************************************************************)
FlagMap ==
    << "Drawcall", "Dispatch", "Clear", "PushMarker", "PopMarker", "SetMarker",
       "Present", "Copy", "Resolve", "GenMips", "PassBoundary", "Indexed",
       "Instanced", "Auto", "Indirect", "ClearColor", "ClearDepthStencil",
       "BeginPass", "EndPass" >>

\* Serializers.serialize_flags: the names of the set bits, in table order.
serialize_flags(flags) == SelectSeq(FlagMap, LAMBDA f : f \in flags)

\* The flags of a list of names, as a set.
FlagSet(names) == {names[i] : i \in 1..Len(names)}

(***************************************************************************)
(* The forest.  A forest of n actions is a sequence of nodes in execution  *)
(* (pre-)order; node i has eventId i, and parent is the index of its       *)
(* parent action, 0 for a root.                                            *)
(***************************************************************************)
\* The actions a node can be: flags and name.
NodeKinds ==
    { [flags |-> {"PushMarker"}, name |-> <<"f">>],
      [flags |-> {"PushMarker"}, name |-> <<"m">>],
      [flags |-> {"PushMarker"}, name |-> <<"m", "x">>],
      [flags |-> {"SetMarker"},  name |-> <<"m">>],
      [flags |-> {"Drawcall", "Indexed"}, name |-> <<"d">>],
      [flags |-> {"Dispatch"},   name |-> <<"c">>] }

RECURSIVE Ancestors(_, _)
\* The proper ancestors of node i under the parent vector p.
Ancestors(p, i) == IF p[i] = 0 THEN {} ELSE {p[i]} \cup Ancestors(p, p[i])

\* The parent vectors of n nodes listed in pre-order.
ParentVectors(n) ==
    { p \in [1..n -> 0..n] :
        \A i \in 1..n :
            /\ p[i] < i
            /\ i > 1 => p[i] \in ({0, i - 1} \cup Ancestors(p, i - 1)) }

Forests ==
    UNION { { [parent |-> p, kind |-> k] : p \in ParentVectors(n),
                                          k \in [1..n -> NodeKinds] }
            : n \in 0..MaxNodes }

NumNodes(F) == Len(F.parent)

RECURSIVE ChildrenFrom(_, _, _)
\* action.children: the children of node p (0: the root actions), in order.
ChildrenFrom(F, p, i) ==
    IF i > NumNodes(F) THEN <<>>
    ELSE (IF F.parent[i] = p THEN <<i>> ELSE <<>>) \o ChildrenFrom(F, p, i + 1)

Children(F, p) == ChildrenFrom(F, p, 1)

IsMarkerFlags(flags) ==
    "PushMarker" \in flags \/ "SetMarker" \in flags \/ "PopMarker" \in flags

\* action.actionId: the index of the action among the non-marker actions.
ActionId(F, i) ==
    Cardinality({ j \in 1..i : ~IsMarkerFlags(F.kind[j].flags) })

(***************************************************************************)
(* The criteria.                                                           *)
(***************************************************************************)
Criteria ==
    [ include_children : BOOLEAN,
      marker_filter    : {None, Some(<<"m">>)},
      exclude_markers  : {None, Some(<< <<"x">> >>)},
      event_id_min     : {None, Some(2), Some(3)},
      event_id_max     : {None, Some(1), Some(2)},
      only_actions     : BOOLEAN,
      flags_filter     : {None, Some(<<>>), Some(<<"Dispatch">>)} ]

\* get_draw_calls called with its defaults.
NoCriteria ==
    [ include_children |-> TRUE, marker_filter |-> None, exclude_markers |-> None,
      event_id_min |-> None, event_id_max |-> None, only_actions |-> FALSE,
      flags_filter |-> None ]

\* Python truthiness of an optional string or list: set and not empty.
Truthy(o) == ~IsNone(o) /\ Len(Val(o)) > 0

(***************************************************************************)
(* Serializers.serialize_actions.                                          *)
(***************************************************************************)
\* The item of an included action; children is <<>> when the key is absent.
Item(F, i, children_result) ==
    [ event_id      |-> i,
      action_id     |-> ActionId(F, i),
      name          |-> F.kind[i].name,
      flags         |-> serialize_flags(F.kind[i].flags),
      children      |-> children_result ]

\* Excluded with marker_filter taking precedence: a marker that marker_filter
\* names is kept.
ExcludedUnlessMatching(F, i, c) ==
    /\ Truthy(c.exclude_markers)
    /\ IsMarkerFlags(F.kind[i].flags)
    /\ \E k \in 1..Len(Val(c.exclude_markers)) :
           Contains(Val(c.exclude_markers)[k], F.kind[i].name)
    /\ ~(Truthy(c.marker_filter) /\ Contains(Val(c.marker_filter), F.kind[i].name))

\* Step 1: the marker is named by one of exclude_markers.
Excluded(F, i, c) ==
    /\ Truthy(c.exclude_markers)
    /\ IsMarkerFlags(F.kind[i].flags)
    /\ \E k \in 1..Len(Val(c.exclude_markers)) :
           Contains(Val(c.exclude_markers)[k], F.kind[i].name)

\* Step 2: in_matching for the action and its subtree.
InMatching(F, i, c, inm) ==
    \/ inm
    \/ /\ Truthy(c.marker_filter)
       /\ "PushMarker" \in F.kind[i].flags
       /\ Contains(Val(c.marker_filter), F.kind[i].name)

\* Step 3 with the upper bound off by one: an action whose event id is
\* event_id_max + 1 still counts as in range.
InRangeOffByOne(F, i, c) ==
    \/ IsMarkerFlags(F.kind[i].flags)
    \/ /\ (IsNone(c.event_id_min) \/ ~(i < Val(c.event_id_min)))
       /\ (IsNone(c.event_id_max) \/ ~(i > Val(c.event_id_max) + 1))

\* Step 3: the event id range test, applied to non-markers only.
InRange(F, i, c) ==
    \/ IsMarkerFlags(F.kind[i].flags)
    \/ /\ (IsNone(c.event_id_min) \/ ~(i < Val(c.event_id_min)))
       /\ (IsNone(c.event_id_max) \/ ~(i > Val(c.event_id_max)))

\* Step 5 without its restriction to non-markers: any action none of whose
\* flag names is in flags_filter.
FlagsRejectedAlsoMarkers(F, i, c) ==
    /\ Truthy(c.flags_filter)
    /\ LET flag_names == serialize_flags(F.kind[i].flags)
       IN  ~\E k \in 1..Len(flag_names) : flag_names[k] \in FlagSet(Val(c.flags_filter))

\* Step 5: a non-marker none of whose flag names is in flags_filter.
FlagsRejected(F, i, c) ==
    /\ Truthy(c.flags_filter)
    /\ ~IsMarkerFlags(F.kind[i].flags)
    /\ LET flag_names == serialize_flags(F.kind[i].flags)
       IN  ~\E k \in 1..Len(flag_names) : flag_names[k] \in FlagSet(Val(c.flags_filter))

\* Step 6: passes_marker_filter.
PassesMarkerFilter(c, in_matching) == ~Truthy(c.marker_filter) \/ in_matching

\* The inclusion decision of lines 235-241.
ShouldInclude(is_marker, has_passing_children, passes_marker_filter, in_range) ==
    IF is_marker
    THEN has_passing_children /\ passes_marker_filter
    ELSE in_range /\ passes_marker_filter

RECURSIVE serialize_actions_splice_last(_, _, _, _)
\* serialize_actions with the children of a marker that only_actions splices
\* out appended after the marker's later siblings instead of in its place.
serialize_actions_splice_last(F, acts, c, inm) ==
    IF acts = <<>> THEN <<>>
    ELSE
      LET i == Head(acts)
          is_marker == IsMarkerFlags(F.kind[i].flags)
          in_matching == InMatching(F, i, c, inm)
          kids == Children(F, i)
          descend == c.include_children /\ kids # <<>>
          spliced == ~Excluded(F, i, c) /\ c.only_actions /\ is_marker
          this ==
            IF Excluded(F, i, c) THEN <<>>
            ELSE IF c.only_actions /\ is_marker
            THEN (IF descend THEN serialize_actions_splice_last(F, kids, c, in_matching)
                  ELSE <<>>)
            ELSE IF FlagsRejected(F, i, c) THEN <<>>
            ELSE
              LET children_result ==
                      IF descend
                      THEN serialize_actions_splice_last(F, kids, c, in_matching)
                      ELSE <<>>
              IN  IF ShouldInclude(is_marker, Len(children_result) > 0,
                                   PassesMarkerFilter(c, in_matching),
                                   InRange(F, i, c))
                  THEN << Item(F, i, children_result) >>
                  ELSE <<>>
          rest == serialize_actions_splice_last(F, Tail(acts), c, inm)
      IN  IF spliced THEN rest \o this ELSE this \o rest

RECURSIVE serialize_actions(_, _, _, _)
\* The list serialized from the actions `acts` (node indices, in order).
serialize_actions(F, acts, c, inm) ==
    IF acts = <<>> THEN <<>>
    ELSE
      LET i == Head(acts)
          is_marker == IsMarkerFlags(F.kind[i].flags)
          in_matching == InMatching(F, i, c, inm)
          kids == Children(F, i)
          descend == c.include_children /\ kids # <<>>
          this ==
            IF Excluded(F, i, c) THEN <<>>
            ELSE IF c.only_actions /\ is_marker
            THEN (IF descend THEN serialize_actions(F, kids, c, in_matching) ELSE <<>>)
            ELSE IF FlagsRejected(F, i, c) THEN <<>>
            ELSE
              LET children_result ==
                      IF descend THEN serialize_actions(F, kids, c, in_matching)
                      ELSE <<>>
              IN  IF ShouldInclude(is_marker, Len(children_result) > 0,
                                   PassesMarkerFilter(c, in_matching),
                                   InRange(F, i, c))
                  THEN << Item(F, i, children_result) >>
                  ELSE <<>>
      IN  this \o serialize_actions(F, Tail(acts), c, inm)

\* ActionService.get_draw_calls: the callback serializes the root actions.
get_draw_calls(F, c) == serialize_actions(F, Children(F, 0), c, FALSE)

(***************************************************************************)
(* The query: a capture with some forest is loaded, a query with some      *)
(* criteria arrives and is answered.                                       *)
(***************************************************************************)
FilterInit ==
    /\ forest \in Forests
    /\ crit \in Criteria
    /\ fpc = "input"
    /\ result = <<>>

RunQuery ==
    /\ fpc = "input"
    /\ result' = get_draw_calls(forest, crit)
    /\ fpc' = "done"
    /\ UNCHANGED <<forest, crit>>

(***************************************************************************)
(* The request router (request_handler.py) and the facade operations it    *)
(* calls (renderdoc_facade.py).                                            *)
(*                                                                         *)
(* A request is [id, method, params]; params is "valid" when every         *)
(* required parameter of the method is present and "missing" when one is   *)
(* absent.  What the provider does during a call is the environment        *)
(* [found, fails]: found, whether the event, resource, file or directory   *)
(* the request names exists; fails, whether the first provider call of the *)
(* operation raises.                                                       *)
(***************************************************************************)
\* RequestHandler._methods: the registered table.
Registered ==
    { "ping", "get_capture_status", "get_draw_calls", "get_frame_summary",
      "find_draws_by_shader", "find_draws_by_texture", "find_draws_by_resource",
      "get_draw_call_details", "get_action_timings", "get_shader_info",
      "get_shader_source", "get_buffer_contents", "get_texture_info",
      "get_texture_data", "get_pipeline_state", "list_captures", "open_capture" }

\* The operations class RenderDocFacade defines.
FacadeOps ==
    { "get_capture_status", "list_captures", "open_capture", "get_draw_calls",
      "get_frame_summary", "get_draw_call_details", "find_draws_by_shader",
      "find_draws_by_texture", "find_draws_by_resource", "get_buffer_contents",
      "get_texture_info", "get_texture_data", "get_shader_info",
      "get_pipeline_state" }

\* The methods whose _handle_* raises ValueError("... is required").
HasRequired ==
    { "find_draws_by_shader", "find_draws_by_texture", "find_draws_by_resource",
      "get_draw_call_details", "get_shader_info", "get_shader_source",
      "get_buffer_contents", "get_texture_info", "get_texture_data",
      "get_pipeline_state", "list_captures", "open_capture" }

\* The operations that start with `if not self.ctx.IsCaptureLoaded(): raise`.
NeedsCapture ==
    { "get_draw_calls", "get_frame_summary", "get_draw_call_details",
      "find_draws_by_shader", "find_draws_by_texture", "find_draws_by_resource",
      "get_buffer_contents", "get_texture_info", "get_texture_data",
      "get_shader_info", "get_pipeline_state" }

\* The operations that report a target they do not find through
\* result["error"] (or, for the file operations, os.path.isdir / isfile).
LooksUp ==
    { "get_draw_call_details", "get_shader_info", "get_buffer_contents",
      "get_texture_info", "get_texture_data", "list_captures", "open_capture" }

\* The operations whose first provider call sits in a try block that turns
\* the failure into a ValueError.
WrapsFailure == { "get_texture_info", "list_captures", "open_capture" }

\* What a handler does: returns, raises ValueError, or raises another
\* exception.  msg tells the failures apart, trace whether the message holds
\* a formatted stack trace.
Returned == [kind |-> "return", msg |-> "", trace |-> FALSE]
ValueError(m) == [kind |-> "ValueError", msg |-> m, trace |-> FALSE]
OtherError(m) == [kind |-> "Exception", msg |-> m, trace |-> FALSE]

\* The facade operation `method`, called with valid parameters.
FacadeCall(method, isLoaded, env) ==
    IF method \notin FacadeOps
    THEN OtherError("no attribute")                 \* AttributeError
    ELSE IF method = "get_capture_status" THEN Returned
    ELSE IF method \in NeedsCapture /\ ~isLoaded
    THEN ValueError("No capture loaded")
    ELSE IF method \in {"list_captures", "open_capture"} /\ ~env.found
    THEN ValueError("not found")
    ELSE IF env.fails
    THEN (IF method = "get_texture_info"
          THEN [kind |-> "ValueError", msg |-> "provider failure", trace |-> TRUE]
          ELSE IF method \in WrapsFailure
          THEN ValueError("provider failure")
          ELSE OtherError("provider failure"))
    ELSE IF method \in LooksUp /\ ~env.found
    THEN ValueError("not found")
    ELSE Returned

\* A _handle_* function that passes its parameters on unchecked.
HandlerWithoutValidation(method, params, isLoaded, env) ==
    IF method = "ping" THEN Returned
    ELSE FacadeCall(method, isLoaded, env)

\* self._methods[method](params): the _handle_* function of the method.
Handler(method, params, isLoaded, env) ==
    IF method = "ping" THEN Returned
    ELSE IF method \in HasRequired /\ params = "missing"
    THEN ValueError("required")
    ELSE FacadeCall(method, isLoaded, env)

\* _error_response forgetting the request: the id is always null.
error_response_without_id(request_id, code, message, trace) ==
    [id |-> None, kind |-> "error", code |-> code, msg |-> message,
     trace |-> trace]

\* RequestHandler._error_response.
error_response(request_id, code, message, trace) ==
    [id |-> request_id, kind |-> "error", code |-> code, msg |-> message,
     trace |-> trace]

\* handle without the lookup of lines 41-44: the handler is called at once.
handle_without_lookup(req, isLoaded, env) ==
    LET raised == Handler(req.method, req.params, isLoaded, env)
    IN  IF raised.kind = "return"
        THEN [id |-> req.id, kind |-> "result", code |-> 0, msg |-> "",
              trace |-> FALSE]
        ELSE IF raised.kind = "ValueError"
        THEN error_response(req.id, -32602, raised.msg, raised.trace)
        ELSE error_response(req.id, -32000, raised.msg, raised.trace)

\* RequestHandler.handle.
handle(req, isLoaded, env) ==
    IF req.method \notin Registered
    THEN error_response(req.id, -32601, "Method not found: " \o req.method, FALSE)
    ELSE LET raised == Handler(req.method, req.params, isLoaded, env)
         IN  IF raised.kind = "return"
             THEN [id |-> req.id, kind |-> "result", code |-> 0, msg |-> "",
                   trace |-> FALSE]
             ELSE IF raised.kind = "ValueError"
             THEN error_response(req.id, -32602, raised.msg, raised.trace)
             ELSE error_response(req.id, -32000, raised.msg, raised.trace)

\* What handle invokes for the request: the _handle_* function of a
\* registered method, and the facade operation once the handler has found
\* its required parameters and the facade has the operation.
Invoked(req) ==
    IF req.method \notin Registered THEN {}
    ELSE IF req.method = "ping" THEN {"handler"}
    ELSE IF req.method \in HasRequired /\ req.params = "missing" THEN {"handler"}
    ELSE IF req.method \notin FacadeOps THEN {"handler"}
    ELSE {"handler", "facade"}

\* ctx.IsCaptureLoaded() after the call: open_capture loads the capture.
LoadedAfter(req, isLoaded, env) ==
    IF /\ req.method = "open_capture" /\ req.params = "valid"
       /\ env.found /\ ~env.fails
    THEN TRUE
    ELSE isLoaded

Requests ==
    [ id : {Some("1"), Some("2")},
      method : Registered \cup {"nope"},
      params : {"valid", "missing"} ]

Envs == [found : BOOLEAN, fails : BOOLEAN]

NoRequest == [id |-> None, method |-> "", params |-> ""]
NoEnv == [found |-> FALSE, fails |-> FALSE]
NoResponse == [id |-> None, kind |-> "", code |-> 0, msg |-> "", trace |-> FALSE]

RouterInit ==
    /\ loaded \in BOOLEAN
    /\ handled = 0
    /\ lastReq = NoRequest
    /\ lastEnv = NoEnv
    /\ lastResp = NoResponse
    /\ invoked = {}

HandleRequest ==
    /\ handled < MaxRequests
    /\ \E req \in Requests, env \in Envs :
           /\ lastReq' = req
           /\ lastEnv' = env
           /\ lastResp' = handle(req, loaded, env)
           /\ invoked' = Invoked(req)
           /\ loaded' = LoadedAfter(req, loaded, env)
    /\ handled' = handled + 1

(***************************************************************************)
(* The frame transport and the connection worker (socket_server.py).       *)
(*                                                                         *)
(* Bytes are the integers 0..255.  A JSON text is a short byte string:     *)
(* byte 123 opens an object and is followed by one byte for the id and one *)
(* for the method (requests) or the outcome (responses); byte 91 alone is  *)
(* a JSON array; anything else is not JSON.                                *)
(***************************************************************************)
\* struct.pack(">I", n): four bytes, most significant first.
Pack(n) ==
    << (n \div 16777216) % 256, (n \div 65536) % 256, (n \div 256) % 256, n % 256 >>

\* struct.unpack(">I", b)[0].
Unpack(b) == b[1] * 16777216 + b[2] * 65536 + b[3] * 256 + b[4]

\* One frame: the length prefix and the payload.
Frame(payload) == Pack(Len(payload)) \o payload

IdBytes == {49, 50}
MethodBytes == {112, 117, 102, 100}

IdOfByte(b) == IF b = 49 THEN Some("1") ELSE IF b = 50 THEN Some("2") ELSE None
ByteOfId(id) == IF id = Some("1") THEN 49 ELSE IF id = Some("2") THEN 50 ELSE 110

\* The request a method byte stands for: p a ping, u a method that is not
\* registered, f find_draws_by_shader without shader_name, d get_draw_calls.
MethodOfByte(b) ==
    IF b = 112 THEN "ping" ELSE IF b = 117 THEN "nope"
    ELSE IF b = 102 THEN "find_draws_by_shader" ELSE "get_draw_calls"
ParamsOfByte(b) == IF b = 102 THEN "missing" ELSE "valid"

\* json.loads(msg_bytes.decode("utf-8")): a dict, a list, or an exception.
JsonLoads(bytes) ==
    IF Len(bytes) = 3 /\ bytes[1] = 123 /\ bytes[2] \in IdBytes /\ bytes[3] \in MethodBytes
    THEN [kind |-> "dict", id |-> IdOfByte(bytes[2]),
          method |-> MethodOfByte(bytes[3]), params |-> ParamsOfByte(bytes[3])]
    ELSE IF bytes = <<91>>
    THEN [kind |-> "list", id |-> None, method |-> "", params |-> ""]
    ELSE [kind |-> "error", id |-> None, method |-> "", params |-> ""]

\* The byte of an error code.
CodeByte(code) ==
    IF code = -32700 THEN 1 ELSE IF code = -32601 THEN 2
    ELSE IF code = -32602 THEN 3 ELSE 4

\* json.dumps(response).encode("utf-8").
JsonDumps(resp) ==
    << 123, ByteOfId(resp.id),
       IF resp.kind = "result" THEN 114 ELSE CodeByte(resp.code) >>

\* The local `request` before its first assignment.
Unbound == [kind |-> "unbound", id |-> None, method |-> "", params |-> ""]

\* The payloads a peer writes: requests, an array, text that is not JSON,
\* and the empty payload.
Payloads ==
    { <<123, i, m>> : i \in IdBytes, m \in MethodBytes } \cup { <<91>>, <<33>>, <<>> }

\* recv with a fixed buffer size instead of the bytes still missing: it
\* returns whatever is there.
RecvWhatIsThere(a, b) == b

\* The most recv(a) returns when b bytes are there.
Min(a, b) == IF a < b THEN a ELSE b

\* The id of the synthetic response of lines 96-99:
\* request.get("id") if "request" in dir() else None.
ParseErrorId(req) == IF req.kind = "unbound" THEN None ELSE req.id

\* Lines 90-99: parse the payload and handle the request.  "raised" when the
\* except block itself raises (request is not a dict).
DispatchOutcome(bytes, req, isLoaded) ==
    LET parsed == JsonLoads(bytes)
    IN  IF parsed.kind = "dict"
        THEN [raised |-> FALSE, request |-> parsed,
              response |-> handle(parsed, isLoaded, NoEnv)]
        ELSE IF parsed.kind = "list"
        THEN [raised |-> TRUE, request |-> parsed, response |-> NoResponse]
        ELSE IF req.kind = "list"
        THEN [raised |-> TRUE, request |-> req, response |-> NoResponse]
        ELSE [raised |-> FALSE, request |-> req,
              response |-> error_response(ParseErrorId(req), -32700,
                                          "Parse error", FALSE)]

\* stop() has not been called.
NotStopped == [pc |-> "none", nsent |-> 0, nresp |-> 0]

ServerInit ==
    /\ running = TRUE
    /\ wire = <<>>
    /\ peerClosed = FALSE
    /\ spc = "loop"
    /\ rbuf = <<>>
    /\ msg_length = 0
    /\ msg_bytes = <<>>
    /\ request = Unbound
    /\ response = NoResponse
    /\ out = <<>>
    /\ sent = <<>>
    /\ delivered = <<>>
    /\ responses = <<>>
    /\ stopSeen = NotStopped
    /\ recvs = 0

\* The peer writes one more frame.
PeerSend ==
    /\ ~peerClosed
    /\ Len(sent) < MaxFrames
    /\ \E payload \in Payloads :
           /\ wire' = wire \o Frame(payload)
           /\ sent' = Append(sent, payload)
    /\ UNCHANGED <<running, peerClosed, spc, rbuf, msg_length, msg_bytes, request,
                   response, out, delivered, responses>>
    /\ UNCHANGED <<stopSeen, recvs>>

\* The peer closes the connection.
PeerClose ==
    /\ ~peerClosed
    /\ peerClosed' = TRUE
    /\ UNCHANGED <<running, wire, spc, rbuf, msg_length, msg_bytes, request,
                   response, out, sent, delivered, responses>>
    /\ UNCHANGED <<stopSeen, recvs>>

\* MCPBridgeServer.stop, as far as the worker sees it.
Stop ==
    /\ running
    /\ running' = FALSE
    /\ stopSeen' = [pc |-> spc, nsent |-> Len(sent), nresp |-> Len(responses)]
    /\ UNCHANGED recvs
    /\ UNCHANGED <<wire, peerClosed, spc, rbuf, msg_length, msg_bytes, request,
                   response, out, sent, delivered, responses>>

\* Line 77: the loop test; leaving the loop closes the connection.
WorkerLoop ==
    /\ spc = "loop"
    /\ spc' = IF running THEN "hdr" ELSE "closed"
    /\ rbuf' = <<>>
    /\ UNCHANGED <<running, wire, peerClosed, msg_length, msg_bytes, request,
                   response, out, sent, delivered, responses>>
    /\ UNCHANGED <<stopSeen, recvs>>

\* _recv_exact: sock.recv returns some of the bytes that are there.  The
\* chunk that completes the length prefix is followed by the unpack and the
\* test of lines 83-88; the chunk that completes the payload ends the read.
WorkerRecv ==
    /\ spc \in {"hdr", "body"}
    /\ wire # <<>>
    /\ LET n == IF spc = "hdr" THEN 4 ELSE msg_length
       IN  \E k \in 1..Min(n - Len(rbuf), Len(wire)) :
             LET data == rbuf \o SubSeq(wire, 1, k)
             IN  /\ wire' = SubSeq(wire, k + 1, Len(wire))
                 /\ IF Len(data) < n
                    THEN /\ rbuf' = data
                         /\ UNCHANGED <<spc, msg_length, msg_bytes, delivered>>
                    ELSE IF spc = "hdr"
                    THEN /\ msg_length' = Unpack(data)
                         /\ rbuf' = <<>>
                         \* _recv_exact(client, 0) returns b"", which is falsy
                         /\ spc' = IF Unpack(data) = 0 THEN "closed" ELSE "body"
                         /\ UNCHANGED <<msg_bytes, delivered>>
                    ELSE /\ msg_bytes' = data
                         /\ delivered' = Append(delivered, data)
                         /\ rbuf' = <<>>
                         /\ spc' = "dispatch"
                         /\ UNCHANGED msg_length
    /\ recvs' = recvs + 1
    /\ UNCHANGED <<running, peerClosed, request, response, out, sent, responses>>
    /\ UNCHANGED stopSeen

\* _recv_exact: recv returns b"" after the peer closed; the worker breaks.
WorkerEof ==
    /\ spc \in {"hdr", "body"}
    /\ wire = <<>>
    /\ peerClosed
    /\ spc' = "closed"
    /\ UNCHANGED <<running, wire, peerClosed, rbuf, msg_length, msg_bytes, request,
                   response, out, sent, delivered, responses>>
    /\ UNCHANGED <<stopSeen, recvs>>

\* Lines 90-99, with a worker that drops the request in hand once the
\* server is stopped.
WorkerDispatchUnlessStopped ==
    /\ spc = "dispatch"
    /\ LET o == DispatchOutcome(msg_bytes, request, loaded)
       IN  /\ request' = o.request
           /\ response' = o.response
           /\ spc' = IF o.raised \/ ~running THEN "closed" ELSE "send"
    /\ UNCHANGED <<running, wire, peerClosed, rbuf, msg_length, msg_bytes, out,
                   sent, delivered, responses>>
    /\ UNCHANGED <<stopSeen, recvs>>

\* Lines 90-99.
WorkerDispatch ==
    /\ spc = "dispatch"
    /\ LET o == DispatchOutcome(msg_bytes, request, loaded)
       IN  /\ request' = o.request
           /\ response' = o.response
           /\ spc' = IF o.raised THEN "closed" ELSE "send"
    /\ UNCHANGED <<running, wire, peerClosed, rbuf, msg_length, msg_bytes, out,
                   sent, delivered, responses>>
    /\ UNCHANGED <<stopSeen, recvs>>

\* Lines 101-104, with the worker giving the connection up after an error
\* response.
WorkerSendClosingOnError ==
    /\ spc = "send"
    /\ out' = out \o Frame(JsonDumps(response))
    /\ responses' = Append(responses, [frame |-> Len(delivered), resp |-> response])
    /\ spc' = IF response.kind = "error" THEN "closed" ELSE "loop"
    /\ UNCHANGED <<running, wire, peerClosed, rbuf, msg_length, msg_bytes, request,
                   response, sent, delivered>>
    /\ UNCHANGED <<stopSeen, recvs>>

\* Lines 101-104: both sendall calls.
WorkerSend ==
    /\ spc = "send"
    /\ out' = out \o Frame(JsonDumps(response))
    /\ responses' = Append(responses, [frame |-> Len(delivered), resp |-> response])
    /\ spc' = "loop"
    /\ UNCHANGED <<running, wire, peerClosed, rbuf, msg_length, msg_bytes, request,
                   response, sent, delivered>>
    /\ UNCHANGED <<stopSeen, recvs>>

\* Lines 101-107: sendall raises because the peer is gone.
WorkerSendFails ==
    /\ spc = "send"
    /\ peerClosed
    /\ spc' = "closed"
    /\ UNCHANGED <<running, wire, peerClosed, rbuf, msg_length, msg_bytes, request,
                   response, out, sent, delivered, responses>>
    /\ UNCHANGED <<stopSeen, recvs>>

(***************************************************************************)
(* The bridge client (mcp_server/bridge/client.py).  One caller invokes    *)
(* call() again and again; the server side of the connection answers,      *)
(* stays silent or closes.                                                 *)
(***************************************************************************)
\* RenderDocBridge._disconnect: the value of _socket afterwards.
Disconnected(sock) == "none"

\* The except clauses of call() (lines 81-88): the value of _socket after an
\* exception of the kind `exc` left the try block.
SocketAfter(exc, sock) ==
    IF exc = "RenderDocBridgeError" THEN sock       \* re-raised as it is
    ELSE Disconnected(sock)                          \* socket.timeout, Exception

ClientInit ==
    /\ csock = "none"
    /\ cpc = "idle"
    /\ conn = "none"
    /\ cin = <<>>
    /\ pending = <<>>
    /\ calls = 0
    /\ reqId = 0
    /\ sends = 0
    /\ outcome = "none"
    /\ gotId = 0

\* call() is invoked; _ensure_connected finds a socket or connects.
CallConnects ==
    /\ cpc = "idle"
    /\ calls < MaxCalls
    /\ calls' = calls + 1
    /\ reqId' = calls + 1
    /\ sends' = 0
    /\ gotId' = 0
    /\ IF csock = "none"
       THEN /\ csock' = "connected"
            /\ conn' = "open"
            /\ cin' = <<>>
            /\ pending' = <<>>
       ELSE UNCHANGED <<csock, conn, cin, pending>>
    /\ cpc' = "send"
    /\ outcome' = "running"

\* call() is invoked and connect() is refused: line 31 has assigned _socket
\* before line 32 raised.
CallRefused ==
    /\ cpc = "idle"
    /\ calls < MaxCalls
    /\ csock = "none"
    /\ calls' = calls + 1
    /\ reqId' = calls + 1
    /\ sends' = 0
    /\ gotId' = 0
    /\ csock' = "unconnected"
    /\ cpc' = "raised"
    /\ outcome' = "refused"
    /\ UNCHANGED <<conn, cin, pending>>

\* Lines 63-66: both sendall calls succeed.  What is written to a connection
\* the server has closed is lost.
SendRequest ==
    /\ cpc = "send"
    /\ csock = "connected"
    /\ sends' = sends + 1
    /\ pending' = IF conn = "open" THEN Append(pending, reqId) ELSE pending
    /\ cpc' = "recv_hdr"
    /\ UNCHANGED <<csock, conn, cin, calls, reqId, outcome, gotId>>

\* Lines 63-66: sendall raises OSError, on a socket that never connected or
\* on a connection the server has closed.
SendFails ==
    /\ cpc = "send"
    /\ csock = "unconnected" \/ conn = "server_closed"
    /\ csock' = SocketAfter("OSError", csock)
    /\ cpc' = "raised"
    /\ outcome' = "socket_error"
    /\ UNCHANGED <<conn, cin, pending, calls, reqId, sends, gotId>>

\* _recv_exact(4) returns the length prefix of the next response frame.
RecvHeader ==
    /\ cpc = "recv_hdr"
    /\ cin # <<>>
    /\ cpc' = "recv_body"
    /\ UNCHANGED <<csock, conn, cin, pending, calls, reqId, sends, outcome, gotId>>

\* _recv_exact(msg_length) returns the payload; lines 73-79 decode it.
RecvBody ==
    /\ cpc = "recv_body"
    /\ cin # <<>>
    /\ LET resp == Head(cin)
       IN  /\ gotId' = resp.id
           /\ cin' = Tail(cin)
           /\ IF resp.kind = "error"
              THEN /\ cpc' = "raised"
                   /\ outcome' = "error_response"
                   /\ csock' = SocketAfter("RenderDocBridgeError", csock)
              ELSE /\ cpc' = "returned"
                   /\ outcome' = "result"
                   /\ UNCHANGED csock
    /\ UNCHANGED <<conn, pending, calls, reqId, sends>>

\* _recv_exact: recv returns b"" because the server closed the connection;
\* line 97 raises RenderDocBridgeError.
RecvClosed ==
    /\ cpc \in {"recv_hdr", "recv_body"}
    /\ cpc = "recv_hdr" => cin = <<>>
    /\ conn = "server_closed"
    /\ csock' = SocketAfter("RenderDocBridgeError", csock)
    /\ cpc' = "raised"
    /\ outcome' = "closed"
    /\ UNCHANGED <<conn, cin, pending, calls, reqId, sends, gotId>>

\* _recv_exact: recv raises OSError (the connection was reset).
RecvFails ==
    /\ cpc \in {"recv_hdr", "recv_body"}
    /\ cpc = "recv_hdr" => cin = <<>>
    /\ conn = "server_closed"
    /\ csock' = SocketAfter("OSError", csock)
    /\ cpc' = "raised"
    /\ outcome' = "socket_error"
    /\ UNCHANGED <<conn, cin, pending, calls, reqId, sends, gotId>>

\* _recv_exact: recv raises socket.timeout after 30 s without data.
RecvTimeout ==
    /\ cpc \in {"recv_hdr", "recv_body"}
    /\ cpc = "recv_hdr" => cin = <<>>
    /\ conn = "open"
    /\ csock' = SocketAfter("timeout", csock)
    /\ cpc' = "raised"
    /\ outcome' = "timeout"
    /\ UNCHANGED <<conn, cin, pending, calls, reqId, sends, gotId>>

\* call() has returned or raised; the caller is ready for the next call.
CallEnds ==
    /\ cpc \in {"returned", "raised"}
    /\ cpc' = "idle"
    /\ UNCHANGED <<csock, conn, cin, pending, calls, reqId, sends, outcome, gotId>>

\* The server side answers the oldest request it holds.
ServerReplies ==
    /\ conn = "open"
    /\ csock = "connected"
    /\ pending # <<>>
    /\ \E kind \in {"result", "error"} :
           cin' = Append(cin, [id |-> Head(pending), kind |-> kind])
    /\ pending' = Tail(pending)
    /\ UNCHANGED <<csock, cpc, conn, calls, reqId, sends, outcome, gotId>>

\* The server side closes the connection (its worker left its loop).
ServerCloses ==
    /\ conn = "open"
    /\ csock = "connected"
    /\ conn' = "server_closed"
    /\ pending' = <<>>
    /\ UNCHANGED <<csock, cpc, cin, calls, reqId, sends, outcome, gotId>>

(***************************************************************************)
(* The capture data provider as the facade reaches it                      *)
(* (renderdoc_extension/renderdoc_facade.py).  Every connection worker is  *)
(* a thread of its own (socket_server.py line 59); a facade method touches *)
(* the provider either by calling the CaptureContext on the worker's own   *)
(* thread or by handing a callback to _invoke, which blocks the worker     *)
(* until the replay thread has run it.                                     *)
(***************************************************************************)
Workers == 1..NumWorkers

ProviderMethods == {"get_draw_calls", "get_capture_status", "open_capture"}

\* The first provider access of a facade method.
FirstStep(method) ==
    IF method = "open_capture" THEN "load" ELSE "check"

\* The step after ctx.IsCaptureLoaded() returned isLoaded.
AfterCheck(method, isLoaded) ==
    IF ~isLoaded THEN "done"              \* raise ValueError / {"loaded": False}
    ELSE IF method = "get_capture_status" THEN "filename"
    ELSE "submit"

\* The workers inside a provider access, on whatever thread.
InProvider ==
    direct \union (IF replayBusy = 0 THEN {} ELSE {replayBusy})

ProviderInit ==
    /\ pmethod = [w \in Workers |-> "none"]
    /\ ppc = [w \in Workers |-> "idle"]
    /\ direct = {}
    /\ replayQ = <<>>
    /\ replayBusy = 0
    /\ pLoaded \in BOOLEAN
    /\ started = 0

\* RequestHandler.handle calls a facade method for a request of worker w.
Dispatch(w) ==
    /\ ppc[w] = "idle"
    /\ started < MaxStarted
    /\ \E m \in ProviderMethods :
           /\ pmethod' = [pmethod EXCEPT ![w] = m]
           /\ ppc' = [ppc EXCEPT ![w] = FirstStep(m)]
    /\ started' = started + 1
    /\ UNCHANGED <<direct, replayQ, replayBusy, pLoaded>>

\* The worker enters ctx.IsCaptureLoaded() on its own thread.
CheckBegin(w) ==
    /\ ppc[w] = "check"
    /\ direct' = direct \union {w}
    /\ ppc' = [ppc EXCEPT ![w] = "checking"]
    /\ UNCHANGED <<pmethod, replayQ, replayBusy, pLoaded, started>>

\* ctx.IsCaptureLoaded() returns.  While another worker is inside
\* ctx.LoadCapture the value read is either one.
CheckEnd(w) ==
    /\ ppc[w] = "checking"
    /\ direct' = direct \ {w}
    /\ \E isLoaded \in BOOLEAN :
           /\ (\A v \in Workers : ppc[v] # "loading") => isLoaded = pLoaded
           /\ ppc' = [ppc EXCEPT ![w] = AfterCheck(pmethod[w], isLoaded)]
    /\ UNCHANGED <<pmethod, replayQ, replayBusy, pLoaded, started>>

\* get_capture_status: ctx.GetCaptureFilename() on the worker's thread.
FilenameBegin(w) ==
    /\ ppc[w] = "filename"
    /\ direct' = direct \union {w}
    /\ ppc' = [ppc EXCEPT ![w] = "naming"]
    /\ UNCHANGED <<pmethod, replayQ, replayBusy, pLoaded, started>>

FilenameEnd(w) ==
    /\ ppc[w] = "naming"
    /\ direct' = direct \ {w}
    /\ ppc' = [ppc EXCEPT ![w] = "submit"]
    /\ UNCHANGED <<pmethod, replayQ, replayBusy, pLoaded, started>>

\* open_capture: the worker enters ctx.LoadCapture(...) on its own thread.
LoadBegin(w) ==
    /\ ppc[w] = "load"
    /\ direct' = direct \union {w}
    /\ ppc' = [ppc EXCEPT ![w] = "loading"]
    /\ UNCHANGED <<pmethod, replayQ, replayBusy, pLoaded, started>>

\* ctx.LoadCapture returns, the capture loaded or not; line 411 checks next.
LoadEnd(w) ==
    /\ ppc[w] = "loading"
    /\ direct' = direct \ {w}
    /\ pLoaded' \in BOOLEAN
    /\ ppc' = [ppc EXCEPT ![w] = "check"]
    /\ UNCHANGED <<pmethod, replayQ, replayBusy, started>>

\* _invoke: BlockInvoke queues the callback and blocks the worker.
Invoke(w) ==
    /\ ppc[w] = "submit"
    /\ replayQ' = Append(replayQ, w)
    /\ ppc' = [ppc EXCEPT ![w] = "blocked"]
    /\ UNCHANGED <<pmethod, direct, replayBusy, pLoaded, started>>

\* The replay thread takes the next callback.
ReplayBegin ==
    /\ replayBusy = 0
    /\ replayQ # <<>>
    /\ replayBusy' = Head(replayQ)
    /\ replayQ' = Tail(replayQ)
    /\ UNCHANGED <<pmethod, ppc, direct, pLoaded, started>>

\* The callback returns; BlockInvoke releases its worker.
ReplayEnd ==
    /\ replayBusy # 0
    /\ ppc' = [ppc EXCEPT ![replayBusy] = "done"]
    /\ replayBusy' = 0
    /\ UNCHANGED <<pmethod, direct, replayQ, pLoaded, started>>

\* The facade method returns or raises; the worker writes its response.
Finish(w) ==
    /\ ppc[w] = "done"
    /\ ppc' = [ppc EXCEPT ![w] = "idle"]
    /\ UNCHANGED <<pmethod, direct, replayQ, replayBusy, pLoaded, started>>

(***************************************************************************)
(* The listening socket (socket_server.py): start(), the accept loop of    *)
(* _run on its own thread, and stop() on the caller's thread.              *)
(***************************************************************************)
ListenerInit ==
    /\ lrunning = FALSE
    /\ lsock = "none"
    /\ apc = "off"
    /\ stpc = "idle"
    /\ backlog = 0
    /\ connects = 0
    /\ accepted = 0
    /\ acceptedAtStop = 0

\* start(): sets _running and starts the thread of _run.
Start ==
    /\ apc = "off"
    /\ stpc = "idle"
    /\ lrunning' = TRUE
    /\ apc' = "create"
    /\ UNCHANGED <<lsock, stpc, backlog, connects, accepted, acceptedAtStop>>

\* _run, line 45: self._socket = socket.socket(...).
RunCreate ==
    /\ apc = "create"
    /\ lsock' = "open"
    /\ apc' = "bind"
    /\ UNCHANGED <<lrunning, stpc, backlog, connects, accepted, acceptedAtStop>>

\* _run, lines 49-51: bind, listen, settimeout.  They raise when stop() has
\* closed the socket already, and bind may find the port taken.
RunBind ==
    /\ apc = "bind"
    /\ \/ /\ lsock = "open"
          /\ lsock' = "listening"
          /\ apc' = "test"
       \/ /\ apc' = "finally"
          /\ UNCHANGED lsock
    /\ UNCHANGED <<lrunning, stpc, backlog, connects, accepted, acceptedAtStop>>

\* _run, line 55: while self._running.
RunTest ==
    /\ apc = "test"
    /\ apc' = IF lrunning THEN "accept" ELSE "finally"
    /\ UNCHANGED <<lrunning, lsock, stpc, backlog, connects, accepted, acceptedAtStop>>

\* _run, lines 56-67: accept() returns a connection (a worker thread is
\* started for it), times out after 1 s, or raises on the closed socket.
RunAccept ==
    /\ apc = "accept"
    /\ IF lsock = "listening" /\ backlog > 0
       THEN /\ accepted' = accepted + 1
            /\ backlog' = backlog - 1
       ELSE UNCHANGED <<accepted, backlog>>
    /\ apc' = "test"
    /\ UNCHANGED <<lrunning, lsock, stpc, connects, acceptedAtStop>>

\* _run, lines 70-72: finally: self._socket.close().
RunFinally ==
    /\ apc = "finally"
    /\ lsock' = "closed"
    /\ backlog' = 0
    /\ apc' = "exited"
    /\ UNCHANGED <<lrunning, stpc, connects, accepted, acceptedAtStop>>

\* stop() leaving _running as it is.
StopWithoutFlag ==
    /\ stpc = "idle"
    /\ apc # "off"
    /\ stpc' = "close"
    /\ UNCHANGED <<lrunning, lsock, apc, backlog, connects, accepted, acceptedAtStop>>

\* stop(), line 32: self._running = False.
StopFlag ==
    /\ stpc = "idle"
    /\ apc # "off"
    /\ lrunning' = FALSE
    /\ stpc' = "close"
    /\ UNCHANGED <<lsock, apc, backlog, connects, accepted, acceptedAtStop>>

\* stop(), lines 33-37: if self._socket: self._socket.close(); stop returns.
StopClose ==
    /\ stpc = "close"
    /\ IF lsock = "none"
       THEN UNCHANGED <<lsock, backlog>>
       ELSE lsock' = "closed" /\ backlog' = 0
    /\ stpc' = "done"
    /\ acceptedAtStop' = accepted
    /\ UNCHANGED <<lrunning, apc, connects, accepted>>

\* A client connects to the listening socket.
ClientConnect ==
    /\ lsock = "listening"
    /\ connects < MaxConnects
    /\ connects' = connects + 1
    /\ backlog' = backlog + 1
    /\ UNCHANGED <<lrunning, lsock, apc, stpc, accepted, acceptedAtStop>>

(***************************************************************************)
(* One MCPBridgeServer object on which start() and stop() are called in    *)
(* any order (socket_server.py).  Every start() starts a thread of _run;   *)
(* the threads share _running and _socket, which _run reads anew at every  *)
(* statement.  Loop t is the thread of the t-th start(), socket t the      *)
(* socket it created at line 45.                                           *)
(***************************************************************************)
Loops == 1..MaxStarts

LifecycleInit ==
    /\ mRunning = FALSE
    /\ mSocket = 0
    /\ socks = [t \in Loops |-> "unused"]
    /\ tpc = [t \in Loops |-> "unstarted"]
    /\ upc = "idle"
    /\ nstops = 0
    /\ foreign = {}
    /\ stopCalled = {}

\* The loops whose thread is alive.
Alive == { t \in Loops : tpc[t] \notin {"unstarted", "exited"} }

\* Loop t operates on self._socket: remembered when it is not its own.
Touch(t) == IF mSocket = t THEN foreign ELSE foreign \union {<<t, mSocket>>}

\* start(): _running = True and a new thread of _run.
StartAgain ==
    /\ upc = "idle"
    /\ \E t \in Loops :
           /\ tpc[t] = "unstarted"
           /\ \A u \in 1..(t - 1) : tpc[u] # "unstarted"
           /\ tpc' = [tpc EXCEPT ![t] = "create"]
    /\ mRunning' = TRUE
    /\ UNCHANGED <<mSocket, socks, upc, nstops, foreign, stopCalled>>

\* stop(), line 32: _running = False.
StopAgainFlag ==
    /\ upc = "idle"
    /\ nstops < MaxStops
    /\ mRunning' = FALSE
    /\ upc' = "close"
    /\ nstops' = nstops + 1
    /\ stopCalled' = stopCalled \union Alive
    /\ UNCHANGED <<mSocket, socks, tpc, foreign>>

\* stop(), lines 33-37: close whatever _socket refers to now.
StopAgainClose ==
    /\ upc = "close"
    /\ socks' = IF mSocket = 0 THEN socks ELSE [socks EXCEPT ![mSocket] = "closed"]
    /\ upc' = "idle"
    /\ UNCHANGED <<mRunning, mSocket, tpc, nstops, foreign, stopCalled>>

\* _run, lines 45-46: self._socket = socket.socket(...).
LoopCreate(t) ==
    /\ tpc[t] = "create"
    /\ mSocket' = t
    /\ socks' = [socks EXCEPT ![t] = "open"]
    /\ tpc' = [tpc EXCEPT ![t] = "bind"]
    /\ UNCHANGED <<mRunning, upc, nstops, foreign, stopCalled>>

\* _run, lines 49-51: self._socket.bind, listen, settimeout.  They raise on
\* a socket that is closed or bound already, and bind may find the port taken.
LoopBind(t) ==
    /\ tpc[t] = "bind"
    /\ \/ /\ socks[mSocket] = "open"
          /\ socks' = [socks EXCEPT ![mSocket] = "listening"]
          /\ tpc' = [tpc EXCEPT ![t] = "test"]
       \/ /\ tpc' = [tpc EXCEPT ![t] = "finally"]
          /\ UNCHANGED socks
    /\ foreign' = Touch(t)
    /\ UNCHANGED <<mRunning, mSocket, upc, nstops, stopCalled>>

\* _run, line 55: while self._running.
LoopTest(t) ==
    /\ tpc[t] = "test"
    /\ tpc' = [tpc EXCEPT ![t] = IF mRunning THEN "accept" ELSE "finally"]
    /\ UNCHANGED <<mRunning, mSocket, socks, upc, nstops, foreign, stopCalled>>

\* _run, lines 56-67: self._socket.accept() returns a connection, times out
\* or raises; each way the loop goes on.
LoopAccept(t) ==
    /\ tpc[t] = "accept"
    /\ tpc' = [tpc EXCEPT ![t] = "test"]
    /\ foreign' = Touch(t)
    /\ UNCHANGED <<mRunning, mSocket, socks, upc, nstops, stopCalled>>

\* _run, lines 70-72: finally: if self._socket: self._socket.close().
LoopFinally(t) ==
    /\ tpc[t] = "finally"
    /\ socks' = [socks EXCEPT ![mSocket] = "closed"]
    /\ tpc' = [tpc EXCEPT ![t] = "exited"]
    /\ foreign' = Touch(t)
    /\ UNCHANGED <<mRunning, mSocket, upc, nstops, stopCalled>>

(***************************************************************************)
(* The one RenderDocBridge of mcp_server/server.py (line 21) called by     *)
(* several threads at once (bridge/client.py).  Each caller makes one      *)
(* call; the id of its request is its own number.  What travels on the     *)
(* socket is kept in pieces: the length prefix and the body of a frame are *)
(* written by two sendall calls and read by two _recv_exact calls.         *)
(***************************************************************************)
Callers == 1..NumCallers

SharedInit ==
    /\ bsock = "none"
    /\ bpc = [c \in Callers |-> "idle"]
    /\ bout = <<>>
    /\ bserved = 0
    /\ bdead = FALSE
    /\ bin = <<>>
    /\ bhdr = [c \in Callers |-> <<>>]
    /\ bgot = [c \in Callers |-> 0]

\* call(), lines 53-59: _ensure_connected, which opens a new connection when
\* _socket is None, and the request with a fresh id.
SharedCall(c) ==
    /\ bpc[c] = "idle"
    /\ IF bsock = "none"
       THEN /\ bsock' = "connected"
            /\ bout' = <<>>
            /\ bserved' = 0
            /\ bdead' = FALSE
            /\ bin' = <<>>
       ELSE UNCHANGED <<bsock, bout, bserved, bdead, bin>>
    /\ bpc' = [bpc EXCEPT ![c] = "send_length"]
    /\ UNCHANGED <<bhdr, bgot>>

\* Line 65: sendall(struct.pack(">I", len(request_bytes))).
SharedSendLength(c) ==
    /\ bpc[c] = "send_length"
    /\ bsock = "connected"
    /\ bout' = Append(bout, <<"H", c>>)
    /\ bpc' = [bpc EXCEPT ![c] = "send_body"]
    /\ UNCHANGED <<bsock, bserved, bdead, bin, bhdr, bgot>>

\* Line 66: sendall(request_bytes).
SharedSendBody(c) ==
    /\ bpc[c] = "send_body"
    /\ bsock = "connected"
    /\ bout' = Append(bout, <<"B", c>>)
    /\ bpc' = [bpc EXCEPT ![c] = "recv_length"]
    /\ UNCHANGED <<bsock, bserved, bdead, bin, bhdr, bgot>>

\* Line 69: _recv_exact(4) returns the next four bytes on the socket.
SharedRecvLength(c) ==
    /\ bpc[c] = "recv_length"
    /\ bsock = "connected"
    /\ bin # <<>>
    /\ bhdr' = [bhdr EXCEPT ![c] = Head(bin)]
    /\ bin' = Tail(bin)
    /\ bpc' = [bpc EXCEPT ![c] = "recv_body"]
    /\ UNCHANGED <<bsock, bout, bserved, bdead, bgot>>

\* Lines 70-79: _recv_exact(msg_length) and the decoding of what it returned.
\* A body read after a length prefix decodes (responses to like requests
\* are equally long); anything else does not and ends in the handler of
\* lines 86-88.  The id of the response is not looked at.
SharedRecvBody(c) ==
    /\ bpc[c] = "recv_body"
    /\ bsock = "connected"
    /\ bin # <<>>
    /\ bin' = Tail(bin)
    /\ IF bhdr[c][1] = "H" /\ Head(bin)[1] = "B"
       THEN /\ bgot' = [bgot EXCEPT ![c] = Head(bin)[2]]
            /\ bpc' = [bpc EXCEPT ![c] = IF Head(bin)[2] = 0 THEN "raised"
                                          ELSE "returned"]
            /\ UNCHANGED bsock
       ELSE /\ bpc' = [bpc EXCEPT ![c] = "raised"]
            /\ bsock' = "none"
            /\ UNCHANGED bgot
    /\ UNCHANGED <<bout, bserved, bdead, bhdr>>

\* Lines 83-85: recv times out because nothing arrives; _disconnect.
SharedTimeout(c) ==
    /\ bpc[c] \in {"recv_length", "recv_body"}
    /\ bsock = "connected"
    /\ bin = <<>>
    /\ bsock' = "none"
    /\ bpc' = [bpc EXCEPT ![c] = "raised"]
    /\ UNCHANGED <<bout, bserved, bdead, bin, bhdr, bgot>>

\* Lines 64, 92 and 86-88: another caller has set _socket to None; the
\* assert fails and the call raises.
SharedSocketGone(c) ==
    /\ bpc[c] \in {"send_length", "send_body", "recv_length", "recv_body"}
    /\ bsock = "none"
    /\ bpc' = [bpc EXCEPT ![c] = "raised"]
    /\ UNCHANGED <<bsock, bout, bserved, bdead, bin, bhdr, bgot>>

\* The server side reads one whole frame and answers it under its id.
SharedServerAnswers ==
    /\ ~bdead
    /\ bserved + 2 <= Len(bout)
    /\ bout[bserved + 1][1] = "H"
    /\ bout[bserved + 2] = <<"B", bout[bserved + 1][2]>>
    /\ bin' = bin \o << <<"H", bout[bserved + 1][2]>>, <<"B", bout[bserved + 1][2]>> >>
    /\ bserved' = bserved + 2
    /\ UNCHANGED <<bsock, bpc, bout, bdead, bhdr, bgot>>

\* The server side reads a length prefix that the body of its frame does
\* not follow: what it takes for the payload is not a request.  It answers
\* with a parse error or not at all, and has lost the frame boundaries.
SharedServerGarbled ==
    /\ ~bdead
    /\ bserved + 2 <= Len(bout)
    /\ ~(/\ bout[bserved + 1][1] = "H"
         /\ bout[bserved + 2] = <<"B", bout[bserved + 1][2]>>)
    /\ \/ bin' = bin \o << <<"H", 0>>, <<"B", 0>> >>
       \/ UNCHANGED bin
    /\ bdead' = TRUE
    /\ bserved' = Len(bout)
    /\ UNCHANGED <<bsock, bpc, bout, bhdr, bgot>>

(***************************************************************************)
(* Idle values: what a component's variables hold in the specifications of *)
(* the other components.                                                   *)
(***************************************************************************)
FilterIdle ==
    /\ forest = [parent |-> <<>>, kind |-> <<>>]
    /\ crit = NoCriteria
    /\ fpc = "idle"
    /\ result = <<>>

RouterIdle ==
    /\ loaded = FALSE
    /\ handled = 0
    /\ lastReq = NoRequest
    /\ lastEnv = NoEnv
    /\ lastResp = NoResponse
    /\ invoked = {}

ServerIdle ==
    /\ running = FALSE
    /\ wire = <<>>
    /\ peerClosed = FALSE
    /\ spc = "idle"
    /\ rbuf = <<>>
    /\ msg_length = 0
    /\ msg_bytes = <<>>
    /\ request = Unbound
    /\ response = NoResponse
    /\ out = <<>>
    /\ sent = <<>>
    /\ delivered = <<>>
    /\ responses = <<>>
    /\ stopSeen = NotStopped
    /\ recvs = 0

ClientIdle ==
    /\ csock = "none"
    /\ cpc = "off"
    /\ conn = "none"
    /\ cin = <<>>
    /\ pending = <<>>
    /\ calls = 0
    /\ reqId = 0
    /\ sends = 0
    /\ outcome = "none"
    /\ gotId = 0

ProviderIdle ==
    /\ pmethod = <<>>
    /\ ppc = <<>>
    /\ direct = {}
    /\ replayQ = <<>>
    /\ replayBusy = 0
    /\ pLoaded = FALSE
    /\ started = 0

ListenerIdle ==
    /\ lrunning = FALSE
    /\ lsock = "none"
    /\ apc = "idle"
    /\ stpc = "off"
    /\ backlog = 0
    /\ connects = 0
    /\ accepted = 0
    /\ acceptedAtStop = 0

LifecycleIdle ==
    /\ mRunning = FALSE
    /\ mSocket = 0
    /\ socks = <<>>
    /\ tpc = <<>>
    /\ upc = "off"
    /\ nstops = 0
    /\ foreign = {}
    /\ stopCalled = {}

SharedIdle ==
    /\ bsock = "none"
    /\ bpc = <<>>
    /\ bout = <<>>
    /\ bserved = 0
    /\ bdead = FALSE
    /\ bin = <<>>
    /\ bhdr = <<>>
    /\ bgot = <<>>

(***************************************************************************)
(* SpecFilter: a capture with some forest is loaded, a query with some     *)
(* criteria arrives and is answered.                                       *)
(***************************************************************************)
FilterSpecInit ==
    FilterInit /\ RouterIdle /\ ServerIdle /\ ClientIdle /\ ProviderIdle /\ ListenerIdle
        /\ LifecycleIdle /\ SharedIdle

FilterNext == RunQuery /\ UNCHANGED <<routerVars, serverVars, clientVars, providerVars, listenerVars, lifecycleVars, sharedVars>>

SpecFilter == FilterSpecInit /\ [][FilterNext]_vars

(***************************************************************************)
(* SpecRouter: requests are handled one after the other against a provider *)
(* that may or may not hold a capture.                                     *)
(***************************************************************************)
RouterSpecInit ==
    RouterInit /\ FilterIdle /\ ServerIdle /\ ClientIdle /\ ProviderIdle /\ ListenerIdle
        /\ LifecycleIdle /\ SharedIdle

RouterNext == HandleRequest /\ UNCHANGED <<filterVars, serverVars, clientVars, providerVars, listenerVars, lifecycleVars, sharedVars>>

SpecRouter == RouterSpecInit /\ [][RouterNext]_vars

(***************************************************************************)
(* SpecServer: one connection of a started server.  The peer writes frames *)
(* and may close; stop() may be called at any time.                        *)
(***************************************************************************)
ServerSpecInit ==
    ServerInit /\ FilterIdle /\ RouterIdle /\ ClientIdle /\ ProviderIdle /\ ListenerIdle
        /\ LifecycleIdle /\ SharedIdle

ServerNext ==
    \/ PeerSend /\ UNCHANGED <<filterVars, routerVars, clientVars, providerVars, listenerVars, lifecycleVars, sharedVars>>
    \/ PeerClose /\ UNCHANGED <<filterVars, routerVars, clientVars, providerVars, listenerVars, lifecycleVars, sharedVars>>
    \/ Stop /\ UNCHANGED <<filterVars, routerVars, clientVars, providerVars, listenerVars, lifecycleVars, sharedVars>>
    \/ WorkerLoop /\ UNCHANGED <<filterVars, routerVars, clientVars, providerVars, listenerVars, lifecycleVars, sharedVars>>
    \/ WorkerRecv /\ UNCHANGED <<filterVars, routerVars, clientVars, providerVars, listenerVars, lifecycleVars, sharedVars>>
    \/ WorkerEof /\ UNCHANGED <<filterVars, routerVars, clientVars, providerVars, listenerVars, lifecycleVars, sharedVars>>
    \/ WorkerDispatch /\ UNCHANGED <<filterVars, routerVars, clientVars, providerVars, listenerVars, lifecycleVars, sharedVars>>
    \/ WorkerSend /\ UNCHANGED <<filterVars, routerVars, clientVars, providerVars, listenerVars, lifecycleVars, sharedVars>>
    \/ WorkerSendFails /\ UNCHANGED <<filterVars, routerVars, clientVars, providerVars, listenerVars, lifecycleVars, sharedVars>>

SpecServer == ServerSpecInit /\ [][ServerNext]_vars

\* The worker is a thread of its own: a step it can take, it takes.
WorkerFairness ==
    /\ WF_vars(WorkerLoop /\ UNCHANGED <<filterVars, routerVars, clientVars, providerVars, listenerVars, lifecycleVars, sharedVars>>)
    /\ WF_vars(WorkerRecv /\ UNCHANGED <<filterVars, routerVars, clientVars, providerVars, listenerVars, lifecycleVars, sharedVars>>)
    /\ WF_vars(WorkerEof /\ UNCHANGED <<filterVars, routerVars, clientVars, providerVars, listenerVars, lifecycleVars, sharedVars>>)
    /\ WF_vars(WorkerDispatch /\ UNCHANGED <<filterVars, routerVars, clientVars, providerVars, listenerVars, lifecycleVars, sharedVars>>)
    /\ WF_vars(WorkerSend /\ UNCHANGED <<filterVars, routerVars, clientVars, providerVars, listenerVars, lifecycleVars, sharedVars>>)

SpecServerFair == ServerSpecInit /\ [][ServerNext]_vars /\ WorkerFairness

(***************************************************************************)
(* SpecClient: the bridge of the MCP server process and its calls.         *)
(***************************************************************************)
ClientSpecInit ==
    ClientInit /\ FilterIdle /\ RouterIdle /\ ServerIdle /\ ProviderIdle /\ ListenerIdle
        /\ LifecycleIdle /\ SharedIdle

ClientNext ==
    \/ CallConnects /\ UNCHANGED <<filterVars, routerVars, serverVars, providerVars, listenerVars, lifecycleVars, sharedVars>>
    \/ CallRefused /\ UNCHANGED <<filterVars, routerVars, serverVars, providerVars, listenerVars, lifecycleVars, sharedVars>>
    \/ SendRequest /\ UNCHANGED <<filterVars, routerVars, serverVars, providerVars, listenerVars, lifecycleVars, sharedVars>>
    \/ SendFails /\ UNCHANGED <<filterVars, routerVars, serverVars, providerVars, listenerVars, lifecycleVars, sharedVars>>
    \/ RecvHeader /\ UNCHANGED <<filterVars, routerVars, serverVars, providerVars, listenerVars, lifecycleVars, sharedVars>>
    \/ RecvBody /\ UNCHANGED <<filterVars, routerVars, serverVars, providerVars, listenerVars, lifecycleVars, sharedVars>>
    \/ RecvClosed /\ UNCHANGED <<filterVars, routerVars, serverVars, providerVars, listenerVars, lifecycleVars, sharedVars>>
    \/ RecvFails /\ UNCHANGED <<filterVars, routerVars, serverVars, providerVars, listenerVars, lifecycleVars, sharedVars>>
    \/ RecvTimeout /\ UNCHANGED <<filterVars, routerVars, serverVars, providerVars, listenerVars, lifecycleVars, sharedVars>>
    \/ CallEnds /\ UNCHANGED <<filterVars, routerVars, serverVars, providerVars, listenerVars, lifecycleVars, sharedVars>>
    \/ ServerReplies /\ UNCHANGED <<filterVars, routerVars, serverVars, providerVars, listenerVars, lifecycleVars, sharedVars>>
    \/ ServerCloses /\ UNCHANGED <<filterVars, routerVars, serverVars, providerVars, listenerVars, lifecycleVars, sharedVars>>

SpecClient == ClientSpecInit /\ [][ClientNext]_vars

(***************************************************************************)
(* SpecProvider: the connection workers' facade calls and the replay       *)
(* thread.                                                                 *)
(***************************************************************************)
ProviderSpecInit ==
    ProviderInit /\ FilterIdle /\ RouterIdle /\ ServerIdle /\ ClientIdle /\ ListenerIdle
        /\ LifecycleIdle /\ SharedIdle

ProviderNext ==
    \/ (\E w \in Workers : Dispatch(w)) /\ UNCHANGED <<filterVars, routerVars, serverVars, clientVars, listenerVars, lifecycleVars, sharedVars>>
    \/ (\E w \in Workers : CheckBegin(w)) /\ UNCHANGED <<filterVars, routerVars, serverVars, clientVars, listenerVars, lifecycleVars, sharedVars>>
    \/ (\E w \in Workers : CheckEnd(w)) /\ UNCHANGED <<filterVars, routerVars, serverVars, clientVars, listenerVars, lifecycleVars, sharedVars>>
    \/ (\E w \in Workers : FilenameBegin(w)) /\ UNCHANGED <<filterVars, routerVars, serverVars, clientVars, listenerVars, lifecycleVars, sharedVars>>
    \/ (\E w \in Workers : FilenameEnd(w)) /\ UNCHANGED <<filterVars, routerVars, serverVars, clientVars, listenerVars, lifecycleVars, sharedVars>>
    \/ (\E w \in Workers : LoadBegin(w)) /\ UNCHANGED <<filterVars, routerVars, serverVars, clientVars, listenerVars, lifecycleVars, sharedVars>>
    \/ (\E w \in Workers : LoadEnd(w)) /\ UNCHANGED <<filterVars, routerVars, serverVars, clientVars, listenerVars, lifecycleVars, sharedVars>>
    \/ (\E w \in Workers : Invoke(w)) /\ UNCHANGED <<filterVars, routerVars, serverVars, clientVars, listenerVars, lifecycleVars, sharedVars>>
    \/ ReplayBegin /\ UNCHANGED <<filterVars, routerVars, serverVars, clientVars, listenerVars, lifecycleVars, sharedVars>>
    \/ ReplayEnd /\ UNCHANGED <<filterVars, routerVars, serverVars, clientVars, listenerVars, lifecycleVars, sharedVars>>
    \/ (\E w \in Workers : Finish(w)) /\ UNCHANGED <<filterVars, routerVars, serverVars, clientVars, listenerVars, lifecycleVars, sharedVars>>

SpecProvider == ProviderSpecInit /\ [][ProviderNext]_vars

(***************************************************************************)
(* SpecListener: start(), the accept loop and stop().  The thread of _run  *)
(* takes the steps it can take, and a stop() that was called returns.      *)
(***************************************************************************)
ListenerSpecInit ==
    ListenerInit /\ FilterIdle /\ RouterIdle /\ ServerIdle /\ ClientIdle /\ ProviderIdle
        /\ LifecycleIdle /\ SharedIdle

ListenerNext ==
    \/ Start /\ UNCHANGED <<filterVars, routerVars, serverVars, clientVars, providerVars, lifecycleVars, sharedVars>>
    \/ RunCreate /\ UNCHANGED <<filterVars, routerVars, serverVars, clientVars, providerVars, lifecycleVars, sharedVars>>
    \/ RunBind /\ UNCHANGED <<filterVars, routerVars, serverVars, clientVars, providerVars, lifecycleVars, sharedVars>>
    \/ RunTest /\ UNCHANGED <<filterVars, routerVars, serverVars, clientVars, providerVars, lifecycleVars, sharedVars>>
    \/ RunAccept /\ UNCHANGED <<filterVars, routerVars, serverVars, clientVars, providerVars, lifecycleVars, sharedVars>>
    \/ RunFinally /\ UNCHANGED <<filterVars, routerVars, serverVars, clientVars, providerVars, lifecycleVars, sharedVars>>
    \/ StopFlag /\ UNCHANGED <<filterVars, routerVars, serverVars, clientVars, providerVars, lifecycleVars, sharedVars>>
    \/ StopClose /\ UNCHANGED <<filterVars, routerVars, serverVars, clientVars, providerVars, lifecycleVars, sharedVars>>
    \/ ClientConnect /\ UNCHANGED <<filterVars, routerVars, serverVars, clientVars, providerVars, lifecycleVars, sharedVars>>

ListenerFairness ==
    /\ WF_vars(RunCreate /\ UNCHANGED <<filterVars, routerVars, serverVars, clientVars, providerVars, lifecycleVars, sharedVars>>)
    /\ WF_vars(RunBind /\ UNCHANGED <<filterVars, routerVars, serverVars, clientVars, providerVars, lifecycleVars, sharedVars>>)
    /\ WF_vars(RunTest /\ UNCHANGED <<filterVars, routerVars, serverVars, clientVars, providerVars, lifecycleVars, sharedVars>>)
    /\ WF_vars(RunAccept /\ UNCHANGED <<filterVars, routerVars, serverVars, clientVars, providerVars, lifecycleVars, sharedVars>>)
    /\ WF_vars(RunFinally /\ UNCHANGED <<filterVars, routerVars, serverVars, clientVars, providerVars, lifecycleVars, sharedVars>>)
    /\ WF_vars(StopClose /\ UNCHANGED <<filterVars, routerVars, serverVars, clientVars, providerVars, lifecycleVars, sharedVars>>)

SpecListener == ListenerSpecInit /\ [][ListenerNext]_vars /\ ListenerFairness

(***************************************************************************)
(* SpecLifecycle: start() and stop() called in any order on one server,    *)
(* with the threads of _run they start.  The threads are scheduled fairly. *)
(***************************************************************************)
LifecycleSpecInit ==
    LifecycleInit /\ FilterIdle /\ RouterIdle /\ ServerIdle /\ ClientIdle /\ ProviderIdle
        /\ ListenerIdle /\ SharedIdle

LifecycleRest ==
    UNCHANGED <<filterVars, routerVars, serverVars, clientVars, providerVars, listenerVars, sharedVars>>

LifecycleNext ==
    \/ StartAgain /\ LifecycleRest
    \/ StopAgainFlag /\ LifecycleRest
    \/ StopAgainClose /\ LifecycleRest
    \/ (\E t \in Loops : LoopCreate(t)) /\ LifecycleRest
    \/ (\E t \in Loops : LoopBind(t)) /\ LifecycleRest
    \/ (\E t \in Loops : LoopTest(t)) /\ LifecycleRest
    \/ (\E t \in Loops : LoopAccept(t)) /\ LifecycleRest
    \/ (\E t \in Loops : LoopFinally(t)) /\ LifecycleRest

LifecycleFairness ==
    /\ WF_vars(StopAgainClose /\ LifecycleRest)
    /\ \A t \in Loops :
           /\ WF_vars(LoopCreate(t) /\ LifecycleRest)
           /\ WF_vars(LoopBind(t) /\ LifecycleRest)
           /\ WF_vars(LoopTest(t) /\ LifecycleRest)
           /\ WF_vars(LoopAccept(t) /\ LifecycleRest)
           /\ WF_vars(LoopFinally(t) /\ LifecycleRest)

SpecLifecycle == LifecycleSpecInit /\ [][LifecycleNext]_vars /\ LifecycleFairness

(***************************************************************************)
(* SpecShared: several threads call the one bridge at the same time.       *)
(***************************************************************************)
SharedSpecInit ==
    SharedInit /\ FilterIdle /\ RouterIdle /\ ServerIdle /\ ClientIdle /\ ProviderIdle
        /\ ListenerIdle /\ LifecycleIdle

SharedRest ==
    UNCHANGED <<filterVars, routerVars, serverVars, clientVars, providerVars, listenerVars,
                lifecycleVars>>

SharedNext ==
    \/ (\E c \in Callers : SharedCall(c)) /\ SharedRest
    \/ (\E c \in Callers : SharedSendLength(c)) /\ SharedRest
    \/ (\E c \in Callers : SharedSendBody(c)) /\ SharedRest
    \/ (\E c \in Callers : SharedRecvLength(c)) /\ SharedRest
    \/ (\E c \in Callers : SharedRecvBody(c)) /\ SharedRest
    \/ (\E c \in Callers : SharedTimeout(c)) /\ SharedRest
    \/ (\E c \in Callers : SharedSocketGone(c)) /\ SharedRest
    \/ SharedServerAnswers /\ SharedRest
    \/ SharedServerGarbled /\ SharedRest

SpecShared == SharedSpecInit /\ [][SharedNext]_vars

(***************************************************************************)
(* Reading a result.                                                       *)
(***************************************************************************)
RECURSIVE EventIds(_)
\* The event ids of a result in pre-order, nested children included.
EventIds(items) ==
    IF items = <<>> THEN <<>>
    ELSE <<Head(items).event_id>> \o EventIds(Head(items).children)
             \o EventIds(Tail(items))

RECURSIVE ItemsOf(_)
\* Every item of a result, at whatever depth, in pre-order.
ItemsOf(items) ==
    IF items = <<>> THEN <<>>
    ELSE <<Head(items)>> \o ItemsOf(Head(items).children) \o ItemsOf(Tail(items))

InResult(res, i) == \E k \in 1..Len(EventIds(res)) : EventIds(res)[k] = i

\* How often event id i occurs in a sequence of event ids.
Count(ids, i) == Cardinality({ k \in 1..Len(ids) : ids[k] = i })

IsMarkerItem(item) == IsMarkerFlags(FlagSet(item.flags))

\* The event ids of the non-marker items of a result, in pre-order.
LeafIds(res) ==
    LET all == ItemsOf(res)
        leaves == SelectSeq(all, LAMBDA it : ~IsMarkerItem(it))
    IN  [k \in 1..Len(leaves) |-> leaves[k].event_id]

IsMarker(F, i) == IsMarkerFlags(F.kind[i].flags)

\* Node j lies in the subtree of node i (i itself included).
InSubtree(F, i, j) == j = i \/ i \in Ancestors(F.parent, j)

RECURSIVE FullTree(_, _)
\* The input forest as it is: every action of `acts` with all its children.
FullTree(F, acts) ==
    IF acts = <<>> THEN <<>>
    ELSE << Item(F, Head(acts), FullTree(F, Children(F, Head(acts)))) >>
             \o FullTree(F, Tail(acts))

\* The criteria that filter nothing: include_children and nothing else.
NoFilter == NoCriteria

(***************************************************************************)
(* Claims about the query engine.                                          *)
(***************************************************************************)

\* C4: with include_children and no other criterion, the result is the input
\* forest: the same nodes in the same order with the same nesting.
C4_NoFilterIdentity ==
    (fpc = "done" /\ crit = NoFilter)
        => result = FullTree(forest, Children(forest, 0))

\* C5: with only_actions the result holds no marker, and its non-marker event
\* ids are, as a multiset, those of the same query without only_actions.
C5_OnlyActionsFlattening ==
    (fpc = "done" /\ crit.only_actions)
        => /\ \A k \in 1..Len(ItemsOf(result)) : ~IsMarkerItem(ItemsOf(result)[k])
           /\ LET other == get_draw_calls(forest, [crit EXCEPT !.only_actions = FALSE])
              IN  \A i \in 1..NumNodes(forest) :
                      Count(LeafIds(result), i) = Count(LeafIds(other), i)

\* C6: with only an event id range set, a marker with a non-marker descendant
\* whose event id is in the range is in the result.
C6_RangeScope ==
    (/\ fpc = "done"
     /\ crit.include_children /\ ~crit.only_actions
     /\ IsNone(crit.marker_filter) /\ IsNone(crit.exclude_markers)
     /\ IsNone(crit.flags_filter))
        => \A i \in 1..NumNodes(forest) :
               (/\ IsMarker(forest, i)
                /\ \E j \in 1..NumNodes(forest) :
                       /\ j # i /\ InSubtree(forest, i, j) /\ ~IsMarker(forest, j)
                       /\ (IsNone(crit.event_id_min) \/ j >= Val(crit.event_id_min))
                       /\ (IsNone(crit.event_id_max) \/ j <= Val(crit.event_id_max)))
                   => InResult(result, i)

\* C9: with only marker_filter set, every non-marker action under a PushMarker
\* whose name contains marker_filter is in the result, however deep that
\* marker sits.
C9_MarkerFilterAtAnyDepth ==
    (/\ fpc = "done"
     /\ crit.include_children /\ ~crit.only_actions
     /\ ~IsNone(crit.marker_filter) /\ IsNone(crit.exclude_markers)
     /\ IsNone(crit.event_id_min) /\ IsNone(crit.event_id_max)
     /\ IsNone(crit.flags_filter))
        => \A j \in 1..NumNodes(forest) :
               (/\ ~IsMarker(forest, j)
                /\ \E i \in Ancestors(forest.parent, j) :
                       /\ "PushMarker" \in forest.kind[i].flags
                       /\ Contains(Val(crit.marker_filter), forest.kind[i].name))
                   => InResult(result, j)

\* The marker i is named by a string of exclude_markers.
NamedByExclude(F, i, c) ==
    /\ ~IsNone(c.exclude_markers)
    /\ IsMarker(F, i)
    /\ \E k \in 1..Len(Val(c.exclude_markers)) :
           Contains(Val(c.exclude_markers)[k], F.kind[i].name)

\* C10: a marker whose name contains a string of exclude_markers is absent
\* from the result with its whole subtree, under every combination of
\* criteria, also when its name contains marker_filter.
C10_ExclusionPrecedence ==
    fpc = "done"
        => \A i \in 1..NumNodes(forest) :
               NamedByExclude(forest, i, crit)
                   => \A j \in 1..NumNodes(forest) :
                          InSubtree(forest, i, j) => ~InResult(result, j)

\* C10's case: a marker named by both exclude_markers and marker_filter whose
\* child the query would return were exclude_markers not given.
C10_Witness ==
    /\ fpc = "done"
    /\ ~IsNone(crit.marker_filter)
    /\ \E i \in 1..NumNodes(forest) :
           /\ NamedByExclude(forest, i, crit)
           /\ Contains(Val(crit.marker_filter), forest.kind[i].name)
           /\ \E j \in 1..NumNodes(forest) :
                  /\ j # i /\ InSubtree(forest, i, j)
                  /\ InResult(get_draw_calls(forest,
                                  [crit EXCEPT !.exclude_markers = None]), j)
                  /\ ~InResult(result, j)

\* The action j carries a flag that flags_filter names.
MatchesFlags(F, j, c) ==
    \E f \in F.kind[j].flags :
        \E k \in 1..Len(Val(c.flags_filter)) : Val(c.flags_filter)[k] = f

\* The non-marker j passes flags_filter, and so does every non-marker above it.
PassesFlags(F, j, c) ==
    /\ ~IsMarker(F, j)
    /\ \A k \in Ancestors(F.parent, j) \cup {j} :
           IsMarker(F, k) \/ MatchesFlags(F, k, c)

\* Only flags_filter is set, with include_children.
OnlyFlagsFilter(c) ==
    /\ c.include_children /\ ~c.only_actions
    /\ Truthy(c.flags_filter)
    /\ IsNone(c.marker_filter) /\ IsNone(c.exclude_markers)
    /\ IsNone(c.event_id_min) /\ IsNone(c.event_id_max)

UnderMatchingMarker(F, i, c) ==
    \E a \in Ancestors(F.parent, i) \cup {i} :
        /\ "PushMarker" \in F.kind[a].flags
        /\ Contains(Val(c.marker_filter), F.kind[a].name)

\* The event id i lies within [event_id_min, event_id_max].
WithinRange(i, c) ==
    /\ (IsNone(c.event_id_min) \/ i >= Val(c.event_id_min))
    /\ (IsNone(c.event_id_max) \/ i <= Val(c.event_id_max))

Increasing(ids) == \A k \in 1..(Len(ids) - 1) : ids[k] < ids[k + 1]

\* C23: filtering never reorders or duplicates: the event ids of the result,
\* read in pre-order, are a subsequence of the event ids of the input forest
\* in pre-order (1, 2, ..., n), under every combination of criteria.
C23_OrderPreserved ==
    fpc = "done"
        => /\ Increasing(EventIds(result))
           /\ \A k \in 1..Len(EventIds(result)) :
                  EventIds(result)[k] \in 1..NumNodes(forest)

\* C23's case: only_actions splices a marker out, and the result holds a child
\* of that marker followed by a later sibling of the marker.
C23_Witness ==
    /\ fpc = "done" /\ crit.only_actions
    /\ \E m, j, k \in 1..NumNodes(forest) :
           /\ IsMarker(forest, m)
           /\ forest.parent[j] = m
           /\ forest.parent[k] = forest.parent[m] /\ k > j
           /\ InResult(result, j) /\ InResult(result, k)
           /\ ~InResult(result, m)

\* C24: whenever a flags_filter value is supplied, the empty list included,
\* every non-marker item of the result carries a flag that flags_filter names;
\* with an empty flags_filter the result holds no non-marker.
C24_SuppliedFlagsFilterApplies ==
    (fpc = "done" /\ ~IsNone(crit.flags_filter))
        => \A k \in 1..Len(ItemsOf(result)) :
               LET it == ItemsOf(result)[k]
               IN  ~IsMarkerItem(it) => MatchesFlags(forest, it.event_id, crit)

(***************************************************************************)
(* Claims about the request router.                                        *)
(***************************************************************************)

\* C7: a failure on the provider side of a registered method (no capture
\* loaded, event or resource not found, a failing provider call) is answered
\* with code -32000; -32602 is kept for missing or malformed parameters.
C7_ProviderErrorCode ==
    (/\ handled > 0
     /\ lastReq.method \in NeedsCapture
     /\ lastReq.params = "valid"
     /\ lastResp.kind = "error")
        => lastResp.code = -32000

\* C13: a request whose method is not in the registered table is answered
\* with code -32601 and the message "Method not found: <method>"; no handler
\* and no facade operation is invoked for it.
C13_UnknownMethod ==
    (handled > 0 /\ lastReq.method \notin Registered)
        => /\ lastResp.kind = "error"
           /\ lastResp.code = -32601
           /\ lastResp.msg = "Method not found: " \o lastReq.method
           /\ lastResp.id = lastReq.id
           /\ invoked = {}

\* C13's case: the method "nope" was dispatched and refused.
C13_Witness ==
    /\ handled > 0
    /\ lastReq.method = "nope"
    /\ lastResp.code = -32601
    /\ lastResp.msg = "Method not found: nope"

C19_NoStackTraceOnWire ==
    (handled > 0 /\ lastResp.kind = "error") => ~lastResp.trace

\* The method catalog clients consume.
Catalog ==
    { "ping", "get_capture_status", "get_draw_calls", "get_frame_summary",
      "find_draws_by_shader", "find_draws_by_texture", "find_draws_by_resource",
      "get_draw_call_details", "get_action_timings", "get_shader_info",
      "get_shader_source", "get_buffer_contents", "get_texture_info",
      "get_texture_data", "get_pipeline_state", "list_captures", "open_capture" }

\* C20: every catalog method is registered, and dispatched with valid
\* parameters, a capture loaded and a provider that succeeds, it returns a
\* result.
C20_CatalogImplemented ==
    /\ Catalog \subseteq Registered
    /\ (/\ handled > 0
        /\ lastReq.method \in Catalog
        /\ lastReq.params = "valid"
        /\ loaded
        /\ lastEnv = [found |-> TRUE, fails |-> FALSE])
           => lastResp.kind = "result"

(***************************************************************************)
(* Claims about the connection worker.                                     *)
(***************************************************************************)

\* C1: the response written for a frame whose payload does not decode into
\* a request has id null and code -32700, whatever was handled before on the
\* connection.
C1_ParseErrorHasNullId ==
    \A k \in 1..Len(responses) :
        JsonLoads(delivered[responses[k].frame]).kind # "dict"
            => /\ responses[k].resp.id = None
               /\ responses[k].resp.code = -32700

RECURSIVE FrameBytes(_, _)
\* The number of bytes of the first k frames of the payloads ps.
FrameBytes(ps, k) == IF k = 0 THEN 0 ELSE FrameBytes(ps, k - 1) + 4 + Len(ps[k])

\* The bytes the worker has taken from the connection.
ConsumedBytes == FrameBytes(sent, Len(sent)) - Len(wire)

\* Every payload written so far is non-empty.
NonEmptyPayloads == \A k \in 1..Len(sent) : Len(sent[k]) > 0

\* C25: with non-empty payloads the frames read do not depend on how recv
\* cuts the stream: the payloads delivered are the payloads written, in
\* order, and the bytes taken from the connection are those of the frames
\* delivered plus the part of the next frame the current read has asked for,
\* never a byte of the frame after it.
C25_SegmentationIndependent ==
    NonEmptyPayloads
        => /\ Len(delivered) <= Len(sent)
           /\ \A k \in 1..Len(delivered) : delivered[k] = sent[k]
           /\ spc \notin {"hdr", "body"}
                  => ConsumedBytes = FrameBytes(sent, Len(delivered))
           /\ spc = "hdr"
                  => /\ Len(rbuf) < 4
                     /\ ConsumedBytes = FrameBytes(sent, Len(delivered)) + Len(rbuf)
           /\ spc = "body"
                  => /\ msg_length = Len(sent[Len(delivered) + 1])
                     /\ Len(rbuf) < msg_length
                     /\ ConsumedBytes
                            = FrameBytes(sent, Len(delivered)) + 4 + Len(rbuf)

\* C25's case: two frames were written back to back and read in more recv
\* calls than two prefixes and two payloads need, so recv cut a frame.
C25_Witness ==
    /\ NonEmptyPayloads
    /\ Len(sent) = 2 /\ delivered = sent
    /\ sent[1] # sent[2]
    /\ recvs > 4

\* C3: whenever the worker is not inside a read, every frame whose bytes it
\* has taken, a frame of length 0 included, was read as the payload that was
\* written.
C3_FrameRoundTrip ==
    spc \in {"loop", "dispatch", "send", "closed"}
        => \A k \in 1..Len(sent) :
               FrameBytes(sent, k) <= ConsumedBytes
                   => k <= Len(delivered) /\ delivered[k] = sent[k]

\* The response holds the key "result" / the key "error".
HasResult(resp) == resp.kind = "result"
HasError(resp) == resp.kind = "error" \/ resp.code # 0 \/ resp.msg # ""

\* C12: every response written holds exactly one of result and error, and a
\* response that handle produced for a decoded request carries that request's
\* id.
C12_ResponseShape ==
    \A k \in 1..Len(responses) :
        LET resp == responses[k].resp
            req  == JsonLoads(delivered[responses[k].frame])
        IN  /\ HasResult(resp) # HasError(resp)
            /\ req.kind = "dict" => resp.id = req.id

\* C12's case: handle answered a request with a result and another with an
\* error, each under its own id.
C12_Witness ==
    /\ Len(responses) = 2
    /\ HasResult(responses[1].resp) /\ responses[1].resp.id = Some("2")
    /\ HasError(responses[2].resp) /\ responses[2].resp.id = Some("1")
    /\ JsonLoads(delivered[2]).kind = "dict"

\* The k-th response answers a request whose handler failed.
HandlerFailed(k) ==
    /\ k <= Len(responses)
    /\ JsonLoads(delivered[responses[k].frame]).kind = "dict"
    /\ responses[k].resp.kind = "error"
    /\ responses[k].resp.code \in {-32602, -32000}

\* C15: once a request whose handler failed (a missing parameter, no capture
\* loaded) has been answered with an error response, a further request on
\* the connection is read and answered too, unless the server is stopped or
\* the peer closes.
C15_ErrorKeepsConnectionOpen ==
    (/\ HandlerFailed(1)
     /\ Len(sent) >= 2 /\ JsonLoads(sent[2]).kind = "dict")
        ~> (Len(responses) >= 2 \/ ~running \/ peerClosed)

\* C15's case: a request that failed in its handler and the next request of
\* the connection are both answered, the server running and the peer there.
C15_Witness ==
    /\ HandlerFailed(1)
    /\ Len(responses) = 2
    /\ responses[2].frame = 2
    /\ running /\ ~peerClosed

\* C17: a worker that holds a complete request frame when the server is
\* stopped still dispatches the request and writes its response, unless the
\* peer is gone.
C17_StopFinishesCurrentFrame ==
    \A n \in 0..MaxFrames :
        (/\ ~running /\ spc = "dispatch"
         /\ JsonLoads(msg_bytes).kind = "dict"
         /\ Len(responses) = n)
            ~> (Len(responses) > n \/ peerClosed)

\* C17's case: the response to a request was written after the server had
\* been stopped, and the worker then left its loop.
C17_Witness ==
    /\ ~running /\ ~peerClosed
    /\ stopSeen.pc = "dispatch"
    /\ spc = "closed"
    /\ Len(responses) = stopSeen.nresp + 1
    /\ JsonLoads(delivered[Len(delivered)]).kind = "dict"
    /\ responses[Len(responses)].frame = Len(delivered)

\* C18: once the server is stopped, the worker leaves its loop and closes
\* its connection, also when the peer keeps the connection open, and no
\* frame the peer wrote after the stop is read for dispatch.
C18_StopReleasesWorker ==
    /\ ~running ~> spc = "closed"
    /\ [](~running => Len(delivered) <= stopSeen.nsent)

\* C21: with the peer still there, every frame the worker has read and is
\* done with was answered by exactly one response, the k-th response
\* answering the k-th frame, whatever the payload decoded to.
C21_OneResponsePerFrame ==
    (~peerClosed /\ spc \notin {"dispatch", "send"})
        => /\ Len(responses) = Len(delivered)
           /\ \A k \in 1..Len(responses) : responses[k].frame = k

(***************************************************************************)
(* Claims about the bridge client.                                         *)
(***************************************************************************)

\* C2: a call that ends on a connection drop (the server closed the
\* connection, a socket error, a timeout) leaves _socket None, and no call
\* writes its request twice.
C2_DropDiscardsSocket ==
    /\ (cpc = "raised" /\ outcome \in {"closed", "socket_error", "timeout"})
           => csock = "none"
    /\ sends <= 1

\* C26: whenever call() has returned or raised, _socket is None or a socket
\* whose connect succeeded, so that a call after a refused connection connects
\* anew.
C26_SocketNoneOrConnected ==
    cpc \in {"returned", "raised", "idle"} => csock \in {"none", "connected"}

(***************************************************************************)
(* Claims about the capture data provider.                                 *)
(***************************************************************************)

\* C8: with several workers having requests in flight, every provider access
\* of a worker runs on the replay thread, so no two workers are inside a
\* provider access at the same time.
C8_ProviderAccessSerialized ==
    /\ direct = {}
    /\ Cardinality(InProvider) <= 1

\* The query of worker w has seen IsCaptureLoaded() return true and its
\* callback has not ended yet.
BetweenCheckAndCallback(w) ==
    /\ pmethod[w] = "get_draw_calls"
    /\ ppc[w] \in {"submit", "blocked"}

\* C30: while the query of one connection is between its capture-loaded check
\* and the end of its callback, no open_capture of another connection is
\* inside LoadCapture, and the capture it checked is still loaded.
C30_CheckAndCallbackSameCapture ==
    \A w \in DOMAIN ppc :
        BetweenCheckAndCallback(w)
            => /\ pLoaded
               /\ \A v \in DOMAIN ppc : v # w => ppc[v] # "loading"

(***************************************************************************)
(* Claims about the listening socket.                                      *)
(***************************************************************************)

\* C16: once stop() was called on a started server, the listening socket is
\* closed and the accept loop exits, and from the return of stop() on no
\* connection is accepted.
C16_StopEndsAcceptLoop ==
    /\ (stpc # "idle") ~> (lsock = "closed" /\ apc = "exited")
    /\ [](stpc = "done" => accepted = acceptedAtStop)

\* C16's case: the server accepted a connection, was stopped with another
\* connection waiting, and its accept loop has exited.
C16_Witness ==
    /\ stpc = "done"
    /\ acceptedAtStop > 0
    /\ connects > accepted
    /\ apc = "exited"
    /\ lsock = "closed"

\* C27: once _run is past bind and listen, is_running() is true only while
\* the accept loop is alive on a bound, open listening socket; after a failed
\* bind or listen is_running() is false.
C27_RunningMeansListening ==
    (lrunning /\ apc \notin {"create", "bind"})
        => (apc \in {"test", "accept"} /\ lsock = "listening")

(***************************************************************************)
(* Claims about one server started and stopped again and again.            *)
(***************************************************************************)

\* The loops that are alive and that no stop() call was meant for.
ActiveLoops == Alive \ stopCalled

\* C28: after any sequence of start() and stop() calls on one server, at
\* most one accept loop is active, every loop operates only on the socket it
\* created itself, and every loop that stop() was called for terminates.
C28_OneLoopOwnSocket ==
    /\ [](Cardinality(ActiveLoops) <= 1)
    /\ [](foreign = {})
    /\ \A t \in Loops : (t \in stopCalled) ~> (tpc[t] = "exited")

(***************************************************************************)
(* Claims about the bridge shared by concurrent callers.                   *)
(***************************************************************************)

\* C29: with callers running call() at the same time on the one bridge, the
\* length prefix of a request is followed on the socket by its own body, and
\* a call that returns has decoded the response whose id is the id of the
\* request it sent.
C29_CallsDoNotMix ==
    /\ \A k \in 1..(Len(bout) - 1) :
           bout[k][1] = "H" => bout[k + 1] = <<"B", bout[k][2]>>
    /\ \A c \in Callers : bpc[c] = "returned" => bgot[c] = c

====
